---- MODULE Spec2Model ----
(***************************************************************************)
(* Model of the bike-manual RAG pipeline.                                  *)
(*                                                                         *)
(*   ingest_manuals.py : DocumentProcessor, VectorDatabase, RAGPipeline.run *)
(*   rag_retrieval.py  : initialize_rag, get_answer and their globals       *)
(*                                                                         *)
(* Spec       : the ingestion pipeline: one process per run, the source     *)
(*              directory edited between runs, index insertion that may     *)
(*              raise.                                                      *)
(* SpecAnswer : a sequence of get_answer calls in one server process.       *)
(***************************************************************************)
EXTENDS Integers, Sequences, FiniteSets, Bags, TLC

VARIABLES
    \* ---- the file system and the stores (ingest_manuals.py)
    source_exists,   \* Path(config.source_dir).exists()
    files,           \* path -> what the file holds ("absent" when there is none)
    registry_file,   \* processed_files.json on disk
    vectorstore,     \* the Chroma collection: a bag of stored chunks
    \* ---- the running ingestion process
    pc,              \* "idle" | "loop" | "added" | "done" | "failed"
    registry,        \* VectorDatabase.registry (in memory)
    loaded,          \* what _load_registry found, and whether it returned a dict
    pdf_files,       \* the list globbed at run start
    idx,             \* position of the for loop in pdf_files
    docs,            \* chunks of the file in hand (between add and mark)
    new_docs_count,  \* run()'s local counter
    \* ---- bookkeeping of the runs (history, read by the properties only)
    runs,            \* number of runs started
    edits,           \* number of edits of the source directory
    outcome,         \* path -> what the current run did with it
    prevOutcome,     \* outcome of the run before
    prevStatus,      \* how the run before ended: "none" | "done" | "failed"
    scanned,         \* the corpus the current (last) run saw
    prevScanned,     \* the corpus the run before saw
    pre,             \* registry (memory and disk) at the last add attempt
    \* ---- rag_retrieval.py: module globals and the last get_answer call
    api_key,         \* os.getenv("GOOGLE_API_KEY") of the server process
    vector_store,    \* global vector_store
    llm,             \* global llm
    PROMPT,          \* global PROMPT
    calls,           \* number of get_answer calls made
    last,            \* the last call: its result and what it invoked
    gen_failed_before, \* llm.invoke raised in a call before the last one
    \* ---- one pass of process_file's page loop over one loaded page
    page_content,    \* doc.page_content as the loader returned it
    cleaned_docs,    \* the list handed to the splitter
    filtered         \* the loop has passed the page

ingestVars == <<source_exists, files, registry_file, vectorstore, pc, registry, loaded,
                pdf_files, idx, docs, new_docs_count, runs, edits, outcome,
                prevOutcome, prevStatus, scanned, prevScanned, pre>>
answerVars == <<api_key, vector_store, llm, PROMPT, calls, last, gen_failed_before>>
pageVars == <<page_content, cleaned_docs, filtered>>
vars == <<ingestVars, answerVars, pageVars>>

(***************************************************************************)
(* Bounds of the model.                                                    *)
(***************************************************************************)
MaxRuns == 2
MaxEdits == 1
MaxCalls == 2
MaxSegments == 3

(***************************************************************************)
(* IngestionConfig and the constants of process_file / get_answer.         *)
(***************************************************************************)
chunk_size == 800
chunk_overlap == 200
MinPageLen == 50
SearchK == 4

(***************************************************************************)
(* The source directory. A path is <<sub-directory, file name>> under      *)
(* source_dir; GlobOrder is the order source_path.glob("**/*.pdf") yields. *)
(***************************************************************************)
GlobOrder == << <<"", "a.pdf">>, <<"", "b.pdf">>, <<"sub", "a.pdf">> >>
Paths == {GlobOrder[i] : i \in 1..Len(GlobOrder)}
Name(p) == p[2]
Names == {Name(p) : p \in Paths}

\* What a file can hold. "unreadable": open() raises. "corrupt": the bytes
\* are read but PyPDFLoader.load raises. The others are PDF bodies.
Bodies == {"corrupt", "short", "manualA", "manualB"}
FileStates == {"absent", "unreadable"} \cup Bodies

\* raw_docs of a loadable body: one entry per page, the length of
\* page_content.strip().
RawDocs(b) ==
    CASE b = "short"   -> <<0, 20>>
      [] b = "manualA" -> <<120>>
      [] b = "manualB" -> <<30, 900>>
      [] OTHER         -> <<>>

(***************************************************************************)
(* DocumentProcessor                                                       *)
(***************************************************************************)
\* calculate_file_hash: the MD5 digest of the bytes read. Distinct bodies of
\* the model have distinct digests (no MD5 collision among them).
calculate_file_hash(b) == <<"md5", b>>

\* The page filter of process_file: `not doc.page_content or
\* len(doc.page_content.strip()) < 50` drops the page.
KeepPage(len) == ~(len = 0 \/ len < MinPageLen)

\* Number of chunks RecursiveCharacterTextSplitter cuts a kept page into:
\* one when it fits chunk_size, else windows of chunk_size overlapping by
\* chunk_overlap.
NumChunks(len) ==
    IF len <= chunk_size THEN 1
    ELSE ((len - chunk_overlap) + (chunk_size - chunk_overlap) - 1)
             \div (chunk_size - chunk_overlap)

\* extract_metadata + the chunks of page i: "source" is the base name.
PageChunks(p, b, i, len) ==
    [j \in 1..NumChunks(len) |->
        [source |-> Name(p), file_path |-> p, body |-> b, page |-> i, part |-> j]]

RECURSIVE SplitFrom(_, _, _, _)
SplitFrom(p, b, raw, i) ==
    IF i > Len(raw) THEN <<>>
    ELSE (IF KeepPage(raw[i]) THEN PageChunks(p, b, i, raw[i]) ELSE <<>>)
             \o SplitFrom(p, b, raw, i + 1)

\* process_file: a load failure is caught and gives [], otherwise the kept
\* pages are split in document order.
process_file(p, b) ==
    IF b = "corrupt" THEN <<>> ELSE SplitFrom(p, b, RawDocs(b), 1)

(***************************************************************************)
(* VectorDatabase                                                          *)
(***************************************************************************)
EmptyDict == [n \in {} |-> <<>>]
NoRegistryFile == [exists |-> FALSE, format |-> "none", data |-> EmptyDict]

\* What processed_files.json can hold when it exists:
\*   "dict"        a JSON object, name -> digest (what _save_registry writes)
\*   "malformed"   text that is not JSON: json.load raises JSONDecodeError
\*   "list"        valid JSON that is not an object: json.load returns it
\*   "undecodable" bytes that are not text: reading raises UnicodeDecodeError
RegistryFormats == {"dict", "malformed", "list", "undecodable"}
BadRegistryFile(fmt) == [exists |-> TRUE, format |-> fmt, data |-> EmptyDict]

\* _load_registry: the dict of the file when it exists and parses, {} when
\* the file is absent or json.JSONDecodeError is caught. For a JSON value
\* that is not an object the entries are none (load_is_dict tells it is no
\* dict).
load_registry(f) == IF f.exists /\ f.format = "dict" THEN f.data ELSE EmptyDict

\* _load_registry returns whatever json.load returned: a list stays a list.
load_is_dict(f) == ~(f.exists /\ f.format = "list")

\* Only json.JSONDecodeError is caught: any other exception of open() or
\* json.load leaves _load_registry and the constructor.
load_raises(f) == f.exists /\ f.format = "undecodable"

\* _save_registry: json.dump of the whole in-memory registry.
save_registry(reg) == [exists |-> TRUE, format |-> "dict", data |-> reg]

\* A faulty is_processed that only looks whether the file name is registered.
is_processed_by_name(reg, filename, file_hash) == filename \in DOMAIN reg

\* is_processed: self.registry.get(filename) == file_hash
is_processed(reg, filename, file_hash) ==
    filename \in DOMAIN reg /\ reg[filename] = file_hash

\* self.registry[filename] = file_hash
SetEntry(reg, filename, file_hash) ==
    [n \in DOMAIN reg \cup {filename} |->
        IF n = filename THEN file_hash ELSE reg[n]]

Range(s) == {s[i] : i \in 1..Len(s)}

\* A faulty add_documents that returns without having stored the last document.
InsertedAllButLast(vs, documents) ==
    vs (+) SetToBag(Range(SubSeq(documents, 1, Len(documents) - 1)))

\* A faulty add_documents that first deletes what the store holds for the
\* sources of the new documents.
InsertedReplacingSource(vs, documents) ==
    LET srcs == {documents[i].source : i \in 1..Len(documents)}
        keep == {c \in BagToSet(vs) : c.source \notin srcs}
    IN  [c \in keep |-> CopiesIn(c, vs)] (+) SetToBag(Range(documents))

\* vectorstore.add_documents: every document is stored under a fresh id.
Inserted(vs, documents) == vs (+) SetToBag(Range(documents))

(***************************************************************************)
(* RAGPipeline.run, one step of the for loop at a time.                    *)
(***************************************************************************)
Glob == SelectSeq(GlobOrder, LAMBDA p : files[p] # "absent")

Stopped == pc \in {"idle", "done", "failed"}
InLoop == pc = "loop" /\ idx <= Len(pdf_files)
Cur == pdf_files[idx]
CurHash == calculate_file_hash(files[Cur])
CurDocs == process_file(Cur, files[Cur])
NoOutcome == [p \in Paths |-> "none"]

\* RAGPipeline() and the head of run(): load the registry (an exception of
\* the constructor ends the process), return when the source directory is
\* missing, else glob it.
StartRun ==
    /\ Stopped
    /\ runs < MaxRuns
    /\ registry' = load_registry(registry_file)
    /\ loaded' = [found |-> IF registry_file.exists THEN registry_file.format
                                                     ELSE "absent",
                  isdict |-> load_is_dict(registry_file)]
    /\ IF load_raises(registry_file)
         THEN pc' = "failed" /\ pdf_files' = <<>>
         ELSE IF source_exists
                THEN pc' = "loop" /\ pdf_files' = Glob
                ELSE pc' = "done" /\ pdf_files' = <<>>
    /\ idx' = 1
    /\ docs' = <<>>
    /\ new_docs_count' = 0
    /\ runs' = runs + 1
    /\ outcome' = NoOutcome
    /\ prevOutcome' = outcome
    /\ prevStatus' = IF runs = 0 THEN "none" ELSE pc
    /\ scanned' = files
    /\ prevScanned' = scanned
    /\ UNCHANGED <<source_exists, files, registry_file, vectorstore, edits, pre>>

\* calculate_file_hash raises (open fails): nothing in run() catches it.
HashFail ==
    /\ InLoop
    /\ files[Cur] = "unreadable"
    /\ pc' = "failed"
    /\ outcome' = [outcome EXCEPT ![Cur] = "hashfail"]
    /\ UNCHANGED <<loaded, source_exists, files, registry_file, vectorstore, registry,
                   pdf_files, idx, docs, new_docs_count, runs, edits,
                   prevOutcome, prevStatus, scanned, prevScanned, pre>>

\* self.registry is not a dict: registry.get raises AttributeError in
\* is_processed, and nothing in run() catches it.
RegistryFail ==
    /\ InLoop
    /\ files[Cur] \in Bodies
    /\ ~loaded.isdict
    /\ pc' = "failed"
    /\ outcome' = [outcome EXCEPT ![Cur] = "registryfail"]
    /\ UNCHANGED <<loaded, source_exists, files, registry_file, vectorstore,
                   registry, pdf_files, idx, docs, new_docs_count, runs, edits,
                   prevOutcome, prevStatus, scanned, prevScanned, pre>>

\* is_processed is true: continue.
SkipFile ==
    /\ InLoop
    /\ files[Cur] \in Bodies
    /\ loaded.isdict
    /\ is_processed(registry, Name(Cur), CurHash)
    /\ idx' = idx + 1
    /\ outcome' = [outcome EXCEPT ![Cur] = "skipped"]
    /\ UNCHANGED <<loaded, source_exists, files, registry_file, vectorstore, pc,
                   registry, pdf_files, docs, new_docs_count, runs, edits,
                   prevOutcome, prevStatus, scanned, prevScanned, pre>>

\* process_file returns []: the else branch only logs a warning.
NoContent ==
    /\ InLoop
    /\ files[Cur] \in Bodies
    /\ loaded.isdict
    /\ ~is_processed(registry, Name(Cur), CurHash)
    /\ CurDocs = <<>>
    /\ idx' = idx + 1
    /\ outcome' = [outcome EXCEPT
                     ![Cur] = IF files[Cur] = "corrupt" THEN "loadfail" ELSE "empty"]
    /\ UNCHANGED <<loaded, source_exists, files, registry_file, vectorstore, pc,
                   registry, pdf_files, docs, new_docs_count, runs, edits,
                   prevOutcome, prevStatus, scanned, prevScanned, pre>>

\* A faulty run() that calls mark_processed before add_documents: when the
\* insertion raises, the registry already holds the entry.
AddFailAfterMark ==
    /\ InLoop
    /\ files[Cur] \in Bodies
    /\ loaded.isdict
    /\ ~is_processed(registry, Name(Cur), CurHash)
    /\ CurDocs # <<>>
    /\ registry' = SetEntry(registry, Name(Cur), CurHash)
    /\ registry_file' = save_registry(registry')
    /\ \E k \in 0..(Len(CurDocs) - 1) :
          vectorstore' = Inserted(vectorstore, SubSeq(CurDocs, 1, k))
    /\ pc' = "failed"
    /\ outcome' = [outcome EXCEPT ![Cur] = "addfail"]
    /\ pre' = [mem |-> registry, disk |-> registry_file]
    /\ UNCHANGED <<loaded, source_exists, files, pdf_files, idx, docs, new_docs_count,
                   runs, edits, prevOutcome, prevStatus, scanned, prevScanned>>

\* add_documents raises: the exception leaves run(). The store may hold any
\* proper prefix of the documents.
AddFail ==
    /\ InLoop
    /\ files[Cur] \in Bodies
    /\ loaded.isdict
    /\ ~is_processed(registry, Name(Cur), CurHash)
    /\ CurDocs # <<>>
    /\ \E k \in 0..(Len(CurDocs) - 1) :
          vectorstore' = Inserted(vectorstore, SubSeq(CurDocs, 1, k))
    /\ pc' = "failed"
    /\ outcome' = [outcome EXCEPT ![Cur] = "addfail"]
    /\ pre' = [mem |-> registry, disk |-> registry_file]
    /\ UNCHANGED <<loaded, source_exists, files, registry_file, registry, pdf_files,
                   idx, docs, new_docs_count, runs, edits, prevOutcome,
                   prevStatus, scanned, prevScanned>>

\* add_documents returns.
AddOk ==
    /\ InLoop
    /\ files[Cur] \in Bodies
    /\ loaded.isdict
    /\ ~is_processed(registry, Name(Cur), CurHash)
    /\ CurDocs # <<>>
    /\ vectorstore' = Inserted(vectorstore, CurDocs)
    /\ docs' = CurDocs
    /\ pc' = "added"
    /\ pre' = [mem |-> registry, disk |-> registry_file]
    /\ UNCHANGED <<loaded, source_exists, files, registry_file, registry, pdf_files,
                   idx, new_docs_count, runs, edits, outcome, prevOutcome,
                   prevStatus, scanned, prevScanned>>

\* mark_processed (registry entry, then _save_registry) and the counter.
Mark ==
    /\ pc = "added"
    /\ registry' = SetEntry(registry, Name(Cur), CurHash)
    /\ registry_file' = save_registry(registry')
    /\ new_docs_count' = new_docs_count + Len(docs)
    /\ outcome' = [outcome EXCEPT ![Cur] = "added"]
    /\ docs' = <<>>
    /\ idx' = idx + 1
    /\ pc' = "loop"
    /\ UNCHANGED <<loaded, source_exists, files, vectorstore, pdf_files, runs, edits,
                   prevOutcome, prevStatus, scanned, prevScanned, pre>>

\* The loop is exhausted: the summary line and validate(), which only reads.
Finish ==
    /\ pc = "loop"
    /\ idx > Len(pdf_files)
    /\ pc' = "done"
    /\ UNCHANGED <<loaded, source_exists, files, registry_file, vectorstore, registry,
                   pdf_files, idx, docs, new_docs_count, runs, edits, outcome,
                   prevOutcome, prevStatus, scanned, prevScanned, pre>>

\* Between two runs somebody adds, removes or rewrites one file of
\* source_dir (an edit before the first run is another initial corpus; the
\* model makes at most one edit between two runs).
EditFile ==
    /\ pc \in {"done", "failed"}
    /\ source_exists
    /\ edits < MaxEdits
    /\ scanned = files
    /\ runs < MaxRuns
    /\ \E p \in Paths, s \in FileStates :
          /\ s # files[p]
          /\ files' = [files EXCEPT ![p] = s]
    /\ edits' = edits + 1
    /\ UNCHANGED <<loaded, source_exists, registry_file, vectorstore, pc, registry,
                   pdf_files, idx, docs, new_docs_count, runs, outcome,
                   prevOutcome, prevStatus, scanned, prevScanned, pre>>

\* Between two runs (or before the first) processed_files.json is deleted
\* or overwritten by something other than _save_registry.
DamageRegistry ==
    /\ Stopped
    /\ edits < MaxEdits
    /\ runs < MaxRuns
    /\ \E f \in {NoRegistryFile} \cup
                 {BadRegistryFile(fmt) : fmt \in RegistryFormats \ {"dict"}} :
          /\ f # registry_file
          /\ registry_file' = f
    /\ edits' = edits + 1
    /\ UNCHANGED <<loaded, source_exists, files, vectorstore, pc, registry,
                   pdf_files, idx, docs, new_docs_count, runs, outcome,
                   prevOutcome, prevStatus, scanned, prevScanned, pre>>

IngestIdle ==
    /\ registry_file = NoRegistryFile
    /\ loaded = [found |-> "absent", isdict |-> TRUE]
    /\ pc = "idle"
    /\ registry = EmptyDict
    /\ pdf_files = <<>>
    /\ idx = 1
    /\ docs = <<>>
    /\ new_docs_count = 0
    /\ runs = 0
    /\ edits = 0
    /\ outcome = NoOutcome
    /\ prevOutcome = NoOutcome
    /\ prevStatus = "none"
    /\ prevScanned = scanned
    /\ pre = [mem |-> EmptyDict, disk |-> NoRegistryFile]

NoCall == [kind |-> "none", gen_raised |-> FALSE]

AnswerIdle ==
    /\ vector_store = "None"
    /\ llm = "None"
    /\ PROMPT = "None"
    /\ calls = 0
    /\ last = NoCall
    /\ gen_failed_before = FALSE

PageIdle ==
    /\ page_content = <<>>
    /\ cleaned_docs = <<>>
    /\ filtered = FALSE

Init ==
    /\ source_exists \in BOOLEAN
    /\ files \in [Paths -> FileStates]
    /\ ~source_exists => \A p \in Paths : files[p] = "absent"
    /\ scanned = files
    /\ vectorstore = EmptyBag
    /\ IngestIdle
    /\ api_key = TRUE
    /\ AnswerIdle
    /\ PageIdle

Next ==
    \/ (StartRun /\ UNCHANGED <<answerVars, pageVars>>)
    \/ (HashFail /\ UNCHANGED <<answerVars, pageVars>>)
    \/ (SkipFile /\ UNCHANGED <<answerVars, pageVars>>)
    \/ (NoContent /\ UNCHANGED <<answerVars, pageVars>>)
    \/ (AddFail /\ UNCHANGED <<answerVars, pageVars>>)
    \/ (AddOk /\ UNCHANGED <<answerVars, pageVars>>)
    \/ (Mark /\ UNCHANGED <<answerVars, pageVars>>)
    \/ (Finish /\ UNCHANGED <<answerVars, pageVars>>)
    \/ (EditFile /\ UNCHANGED <<answerVars, pageVars>>)

Spec == Init /\ [][Next]_vars

\* The same pipeline with a registry file that can be lost or damaged.
NextRegistry ==
    \/ Next
    \/ (RegistryFail /\ UNCHANGED <<answerVars, pageVars>>)
    \/ (DamageRegistry /\ UNCHANGED <<answerVars, pageVars>>)

SpecRegistry == Init /\ [][NextRegistry]_vars

(***************************************************************************)
(* rag_retrieval.py                                                        *)
(***************************************************************************)
Questions == {"chain slack", "oil level"}

\* The module globals as one record; NoGlobals is their value at import.
Globals == [vector_store |-> vector_store, llm |-> llm, PROMPT |-> PROMPT]
NoGlobals == [vector_store |-> "None", llm |-> "None", PROMPT |-> "None"]

\* What the environment does during one call: which constructors of
\* initialize_rag succeed, whether the search and the generation call return.
Envs == [embedOk : BOOLEAN, chromaOk : BOOLEAN, llmOk : BOOLEAN,
         searchOk : BOOLEAN, invokeOk : BOOLEAN]

\* initialize_rag: the globals are assigned one by one and an exception
\* leaves those already assigned in place.
initialize_rag(g, key, env) ==
    IF ~key THEN
        [g |-> g, ok |-> FALSE, error |-> "GOOGLE_API_KEY environment variable is not set"]
    ELSE IF ~env.embedOk THEN
        [g |-> g, ok |-> FALSE, error |-> "embeddings"]
    ELSE IF ~env.chromaOk THEN
        [g |-> g, ok |-> FALSE, error |-> "chroma"]
    ELSE IF ~env.llmOk THEN
        [g |-> [g EXCEPT !.vector_store = "Chroma"], ok |-> FALSE, error |-> "llm"]
    ELSE
        [g |-> [vector_store |-> "Chroma", llm |-> "ChatGoogleGenerativeAI",
                PROMPT |-> "PromptTemplate"],
         ok |-> TRUE, error |-> ""]

\* vector_store.similarity_search(question, k): the k nearest stored chunks
\* (fewer when the store holds fewer); every stored copy counts. The ranking
\* is the store's: a fixed order per question.
Stored(vs) ==
    UNION {{<<c, i>> : i \in 1..CopiesIn(c, vs)} : c \in BagToSet(vs)}

RECURSIVE Nearest(_, _)
Nearest(S, k) ==
    IF k = 0 \/ S = {} THEN <<>>
    ELSE LET x == CHOOSE y \in S : TRUE
         IN  <<x[1]>> \o Nearest(S \ {x}, k - 1)

similarity_search(vs, question, k) == Nearest(Stored(vs), k)

\* A faulty generation step that calls the backend a second time after a
\* failure.
invoke_llm_retrying(g, env) ==
    IF g.llm = "None" THEN [ok |-> FALSE, calls |-> 0, error |-> "NoneType invoke"]
    ELSE IF env.invokeOk THEN [ok |-> TRUE, calls |-> 1, error |-> ""]
    ELSE [ok |-> FALSE, calls |-> 2, error |-> "generation failed"]

\* llm.invoke(formatted_prompt): one call of the backend.
invoke_llm(g, env) ==
    IF g.llm = "None" THEN [ok |-> FALSE, calls |-> 0, error |-> "NoneType invoke"]
    ELSE IF env.invokeOk THEN [ok |-> TRUE, calls |-> 1, error |-> ""]
    ELSE [ok |-> FALSE, calls |-> 1, error |-> "generation failed"]

\* The dict get_answer returns, and what the call did.
Returned(g, kind, error, question, context, sources, searched, found, ncalls) ==
    [g |-> g,
     result |-> [kind |-> kind, error |-> error, question |-> question,
                 context |-> context],
     source_documents |-> sources,
     searched |-> searched, found |-> found, llm_calls |-> ncalls,
     gen_raised |-> (ncalls > 0 /\ kind = "error")]

\* get_answer from globals g: lazy initialisation when vector_store is None,
\* then search, prompt and generation inside one try.
get_answer(g, key, vs, question, env) ==
    LET init == IF g.vector_store = "None"
                  THEN initialize_rag(g, key, env)
                  ELSE [g |-> g, ok |-> TRUE, error |-> ""]
        g1 == init.g
        found == similarity_search(vs, question, SearchK)
        gen == invoke_llm(g1, env)
    IN  IF ~init.ok THEN
            Returned(g1, "system_error", init.error, question, <<>>, <<>>,
                     FALSE, 0, 0)
        ELSE IF ~env.searchOk THEN
            Returned(g1, "error", "search failed", question, <<>>, <<>>,
                     FALSE, 0, 0)
        ELSE IF g1.PROMPT = "None" THEN
            Returned(g1, "error", "NoneType format", question, <<>>, <<>>,
                     TRUE, Len(found), 0)
        ELSE IF ~gen.ok THEN
            Returned(g1, "error", gen.error, question, <<>>, <<>>,
                     TRUE, Len(found), gen.calls)
        ELSE
            Returned(g1, "generated", "", question, found, found,
                     TRUE, Len(found), gen.calls)

\* One get_answer(question) call of the server process.
GetAnswer ==
    /\ calls < MaxCalls
    /\ \E question \in Questions, env \in Envs :
          LET r == get_answer(Globals, api_key, vectorstore, question, env)
              fresh == get_answer(NoGlobals, api_key, vectorstore, question, env)
          IN  /\ vector_store' = r.g.vector_store
              /\ llm' = r.g.llm
              /\ PROMPT' = r.g.PROMPT
              /\ last' = [kind |-> "call", result |-> r.result,
                          source_documents |-> r.source_documents,
                          searched |-> r.searched, found |-> r.found,
                          llm_calls |-> r.llm_calls, gen_raised |-> r.gen_raised,
                          working |-> (env.searchOk /\ env.invokeOk),
                          expected |-> similarity_search(vectorstore, question, SearchK),
                          fresh_result |-> fresh.result,
                          fresh_sources |-> fresh.source_documents]
    /\ gen_failed_before' = (gen_failed_before \/ (last.kind = "call" /\ last.gen_raised))
    /\ calls' = calls + 1
    /\ UNCHANGED <<api_key>>

\* The indexes the answering process may find in ./chroma_db: empty, one
\* manual, or more chunks than k.
AnswerIndexes ==
    {EmptyBag,
     Inserted(EmptyBag, process_file(GlobOrder[1], "manualA")),
     Inserted(Inserted(Inserted(EmptyBag,
         process_file(GlobOrder[1], "manualB")),
         process_file(GlobOrder[2], "manualB")),
         process_file(GlobOrder[1], "manualB"))}

InitAnswer ==
    /\ source_exists = FALSE
    /\ files = [p \in Paths |-> "absent"]
    /\ scanned = files
    /\ vectorstore \in AnswerIndexes
    /\ IngestIdle
    /\ api_key \in BOOLEAN
    /\ AnswerIdle
    /\ PageIdle

NextAnswer == GetAnswer /\ UNCHANGED <<ingestVars, pageVars>>

SpecAnswer == InitAnswer /\ [][NextAnswer]_vars


(***************************************************************************)
(* server.py                                                               *)
(***************************************************************************)
\* get_sources: the base names of glob.glob("bike_manuals/*.pdf"), the PDF
\* files directly in the source directory.
get_sources == {Name(p) : p \in {q \in Paths : q[1] = "" /\ files[q] # "absent"}}

(***************************************************************************)
(* Properties of the ingestion pipeline (checked under Spec).              *)
(***************************************************************************)
Discovered == Range(pdf_files)
Changed == {p \in Paths : prevScanned[p] # scanned[p]}
LastHandled == pdf_files[idx - 1]
AllStored(documents) ==
    \A i \in 1..Len(documents) : BagIn(documents[i], vectorstore)

\* C1: after a run that completed, a second run over the byte-identical
\* corpus calls add_documents with chunks for no file.
C1_SecondRunInsertsNothing ==
    (runs >= 2 /\ prevStatus = "done" /\ prevScanned = scanned)
        => /\ pc # "added"
           /\ \A p \in Paths : outcome[p] \notin {"added", "addfail"}

\* C2: after a completed run over a corpus of loadable files with content,
\* when the bytes of exactly one file were changed (to other loadable
\* content), the next run (run to completion) processes that file again and
\* skips every other file of the corpus.
C2_OnlyChangedFileReprocessed ==
    (/\ runs >= 2 /\ prevStatus = "done" /\ pc = "done"
     /\ Cardinality(Changed) = 1
     /\ \A p \in Changed : prevScanned[p] # "absent" /\ scanned[p] # "absent"
     /\ \A p \in Paths :
           /\ prevScanned[p] \in {"absent", "manualA", "manualB"}
           /\ scanned[p] \in {"absent", "manualA", "manualB"})
        => \A p \in Discovered :
              IF p \in Changed
                THEN outcome[p] = "added"
                ELSE outcome[p] = "skipped"

\* C3: in every reachable state, also after an index failure, a registry
\* entry name -> digest (in memory or on disk) exists only when add_documents
\* has completed for all the chunks of a file of that name whose content has
\* that digest.
C3_RegistryOnlyAfterAdd ==
    \A reg \in {registry, load_registry(registry_file)} :
        \A n \in DOMAIN reg :
            \E p \in Paths, b \in Bodies :
                /\ Name(p) = n
                /\ calculate_file_hash(b) = reg[n]
                /\ process_file(p, b) # <<>>
                /\ AllStored(process_file(p, b))

\* C3 witness: a run that failed in add_documents after it had marked an
\* earlier file.
C3_Witness ==
    /\ pc = "failed"
    /\ \E p \in Paths : outcome[p] = "addfail"
    /\ \E p \in Paths : outcome[p] = "added"
    /\ DOMAIN registry # {}

\* C4: when process_file yields zero chunks for a file whose pages are all
\* below the minimum length, the run records the file's digest in the
\* registry (so the next run skips the file).
C4_EmptyFileMarked ==
    (pc = "loop" /\ idx > 1 /\ outcome[LastHandled] = "empty")
        => /\ is_processed(registry, Name(LastHandled),
                           calculate_file_hash(files[LastHandled]))
           /\ is_processed(load_registry(registry_file), Name(LastHandled),
                           calculate_file_hash(files[LastHandled]))

\* C5: when a single file of the corpus cannot be read or parsed (the failure
\* being in fingerprinting or in loading) and no index insertion fails, the
\* run ends with every other discovered file handled: fingerprinted and
\* either skipped as current or chunked, indexed and marked.
C5_BadFileDoesNotAbort ==
    LET bad == {p \in Paths : scanned[p] \in {"unreadable", "corrupt"}} IN
    (/\ runs >= 1 /\ pc \in {"done", "failed"}
     /\ Cardinality(bad) = 1
     /\ \A p \in Paths : outcome[p] # "addfail")
        => \A p \in Discovered \ bad :
              outcome[p] \in {"skipped", "added", "empty"}

\* C6: when add_documents raises for a file, the registry in memory and on
\* disk is exactly what it was before the attempt; and in the next run over
\* the unchanged corpus the file is not skipped: a run that completes has
\* processed and indexed it.
C6_IndexFailureUncommittedAndRetried ==
    \A p \in Paths :
        /\ outcome[p] = "addfail"
              => /\ pc = "failed"
                 /\ registry = pre.mem
                 /\ registry_file = pre.disk
                 /\ ~is_processed(registry, Name(p),
                                  calculate_file_hash(scanned[p]))
        /\ (runs >= 2 /\ prevOutcome[p] = "addfail" /\ prevScanned = scanned)
              => /\ outcome[p] # "skipped"
                 /\ pc = "done" => outcome[p] = "added"

\* C6 witness: the file whose insertion failed in the run before is indexed
\* and marked by the next run over the unchanged corpus.
C6_Witness ==
    \E p \in Paths :
        /\ runs >= 2 /\ prevOutcome[p] = "addfail" /\ prevScanned = scanned
        /\ outcome[p] = "added"
        /\ pc = "done"

\* C7: when add_documents fails for one file of a run (and every file can be
\* read), the run still handles all the remaining discovered files.
C7_IndexFailureDoesNotHaltBatch ==
    (/\ pc \in {"done", "failed"}
     /\ \E p \in Paths : outcome[p] = "addfail"
     /\ \A p \in Paths : scanned[p] # "unreadable")
        => \A q \in Discovered : outcome[q] # "none"

(***************************************************************************)
(* Properties of get_answer (checked under SpecAnswer).                    *)
(***************************************************************************)
Called == last.kind = "call"

\* C8: whenever the similarity search of get_answer returns zero results,
\* the generation backend is not invoked and the answer returned says that
\* no relevant context was found.
C8_NoGenerationOnEmptyRetrieval ==
    (Called /\ last.searched /\ last.found = 0)
        => /\ last.llm_calls = 0
           /\ last.result.kind = "no_context"

\* C9: when llm.invoke raises inside get_answer, the call returns a result
\* whose text carries the error and whose source list is empty, after exactly
\* one invocation of the backend; and a later call during which search and
\* generation work returns the generated answer with its retrieved sources.
C9_GenerationFailureDegrades ==
    /\ (Called /\ last.gen_raised)
          => /\ last.result.kind = "error"
             /\ last.result.error = "generation failed"
             /\ last.source_documents = <<>>
             /\ last.llm_calls = 1
    /\ (Called /\ gen_failed_before /\ last.working)
          => /\ last.result.kind = "generated"
             /\ last.result.context = last.expected
             /\ last.source_documents = last.expected
             /\ last.llm_calls = 1

\* C9 witness: after a call whose generation failed, a call with working
\* backends has answered from retrieved chunks.
C9_Witness ==
    /\ Called /\ gen_failed_before /\ last.working
    /\ last.result.kind = "generated"
    /\ Len(last.source_documents) > 0

\* C10: the outcome of a get_answer call is the outcome the same question
\* gets, against the same index and the same behaviour of the backends, from
\* a process with no earlier call.
C10_CallsIndependent ==
    Called => /\ last.result = last.fresh_result
              /\ last.source_documents = last.fresh_sources

(***************************************************************************)
(* Registry identity, skip, write-through and the index (under Spec).      *)
(***************************************************************************)
\* C11: two distinct source files never share or overwrite one another's
\* registry entry: a file that this run found current or marked keeps an
\* entry with its own digest while other files are handled.
C11_OneEntryPerFile ==
    \A p \in Paths :
        outcome[p] \in {"skipped", "added"}
            => is_processed(registry, Name(p), calculate_file_hash(scanned[p]))

(***************************************************************************)
(* The registry file lost or damaged (under SpecRegistry).                 *)
(***************************************************************************)
\* C12: when the persisted registry file is absent or is anything but a
\* readable name -> digest mapping, loading yields an empty registry and the
\* run goes on treating every file as new (none is skipped): a bad registry
\* file never makes the run fail (a run that fails does so in hashing or
\* indexing a file).
C12_BadRegistryFileTolerated ==
    (runs >= 1 /\ loaded.found # "dict" /\ pc # "idle")
        => /\ pc = "failed"
                 => \E p \in Paths : outcome[p] \in {"hashfail", "addfail"}
           /\ \A p \in Paths : outcome[p] \notin {"skipped", "registryfail"}

\* C13: when the registry is lost or reset after a completed run and
\* ingestion is run again over the unchanged corpus, the index afterwards
\* holds no chunk twice: re-adding a file's chunks creates no duplicate entry.
C13_ReingestionAddsNoDuplicate ==
    (/\ runs >= 2 /\ prevStatus = "done" /\ pc = "done"
     /\ prevScanned = scanned
     /\ loaded.found \in {"absent", "malformed"})
        => \A c \in BagToSet(vectorstore) : CopiesIn(c, vectorstore) = 1

(***************************************************************************)
(* Initialisation of the answering process (under SpecAnswer).             *)
(***************************************************************************)
\* C14: when initialize_rag fails, get_answer returns a System Error result
\* with no sources and neither searches nor generates; and in every state
\* vector_store, llm and PROMPT are all set or all unset.
C14_NoPartialInitialisation ==
    /\ (Called /\ last.result.kind = "system_error")
          => /\ last.source_documents = <<>>
             /\ ~last.searched
             /\ last.llm_calls = 0
    /\ (vector_store = "None") <=> (llm = "None")
    /\ (llm = "None") <=> (PROMPT = "None")

(***************************************************************************)
(* The listing entry point (under Spec).                                   *)
(***************************************************************************)
\* C15: the file names get_sources returns are the file names of the PDF
\* files the ingestion scan discovers in the same source directory.
C15_ListingEqualsScan ==
    (pc \in {"loop", "added", "done"} /\ source_exists /\ files = scanned)
        => get_sources = {Name(p) : p \in Discovered}

(***************************************************************************)
(* Skip (under Spec).                                                      *)
(***************************************************************************)
\* C16: the loop skips the file in hand exactly when the registry maps its
\* registry key (the file name) to exactly its current digest, and the step
\* that skips it leaves the index, the registry in memory and on disk, the
\* pending chunks and the chunk counter unchanged and moves on to the next
\* file.
C16_SkipIsTerminalNoEffect ==
    [][ (InLoop /\ files[Cur] # "unreadable")
          => LET current == /\ Name(Cur) \in DOMAIN registry
                            /\ registry[Name(Cur)] = CurHash
             IN  /\ (outcome'[Cur] = "skipped") <=> current
                 /\ current => /\ vectorstore' = vectorstore
                               /\ registry' = registry
                               /\ registry_file' = registry_file
                               /\ docs' = docs
                               /\ new_docs_count' = new_docs_count
                               /\ pc' = "loop"
                               /\ idx' = idx + 1 ]_vars

\* C16 witness: a run has skipped a file whose digest the registry held,
\* with an index that is not empty.
C16_Witness ==
    /\ \E p \in Paths :
          /\ outcome[p] = "skipped"
          /\ is_processed(registry, Name(p), calculate_file_hash(scanned[p]))
    /\ vectorstore # EmptyBag

(***************************************************************************)
(* The page filter and clean_text, on the text of a page.  A text is a     *)
(* sequence of segments <<character, repetitions>>: "x" is a printing      *)
(* character, "nl" a newline, "sp" a space and "nbsp" U+00A0.              *)
(***************************************************************************)
Chars == {"x", "nl", "sp", "nbsp"}
Whitespace == {"nl", "sp", "nbsp"}
RunLengths == {1, 3, 20, 30}
Segments == Chars \X RunLengths
Texts == UNION {[1..n -> Segments] : n \in 0..MaxSegments}

RECURSIVE TextLen(_)
TextLen(t) == IF t = <<>> THEN 0 ELSE Head(t)[2] + TextLen(Tail(t))

\* Adjacent segments of the same character are one run of that character.
RECURSIVE Merged(_)
Merged(t) ==
    IF Len(t) < 2 THEN t
    ELSE IF t[1][1] = t[2][1]
         THEN Merged(<< <<t[1][1], t[1][2] + t[2][2]>> >> \o SubSeq(t, 3, Len(t)))
         ELSE <<t[1]>> \o Merged(Tail(t))

\* str.strip(): leading and trailing whitespace goes, U+00A0 included.
RECURSIVE lstrip(_)
lstrip(t) ==
    IF t # <<>> /\ Head(t)[1] \in Whitespace THEN lstrip(Tail(t)) ELSE t

RECURSIVE rstrip(_)
rstrip(t) ==
    IF t # <<>> /\ t[Len(t)][1] \in Whitespace
    THEN rstrip(SubSeq(t, 1, Len(t) - 1)) ELSE t

strip(t) == rstrip(lstrip(t))

\* clean_text: re.sub(r'\n{3,}', '\n\n'), replace('\xa0', ' '), strip().
clean_text(text) ==
    LET runs_    == Merged(text)
        collapsed == [i \in 1..Len(runs_) |->
                         IF runs_[i][1] = "nl" /\ runs_[i][2] >= 3
                         THEN <<"nl", 2>> ELSE runs_[i]]
        replaced  == [i \in 1..Len(collapsed) |->
                         IF collapsed[i][1] = "nbsp"
                         THEN <<"sp", collapsed[i][2]>> ELSE collapsed[i]]
    IN  strip(replaced)

\* The body of process_file's for loop for one page: the filter looks at the
\* stripped raw text, and a page that passes is cleaned and appended.
FilterAndClean ==
    /\ ~filtered
    /\ filtered' = TRUE
    /\ cleaned_docs' = IF KeepPage(TextLen(strip(page_content)))
                       THEN Append(cleaned_docs, clean_text(page_content))
                       ELSE cleaned_docs
    /\ UNCHANGED page_content

InitPages ==
    /\ source_exists = FALSE
    /\ files = [p \in Paths |-> "absent"]
    /\ scanned = files
    /\ vectorstore = EmptyBag
    /\ IngestIdle
    /\ api_key = TRUE
    /\ AnswerIdle
    /\ page_content \in Texts
    /\ cleaned_docs = <<>>
    /\ filtered = FALSE

NextPages == FilterAndClean /\ UNCHANGED <<ingestVars, answerVars>>

SpecPages == InitPages /\ [][NextPages]_vars

\* C18: every page handed to the splitter has cleaned text of at least the
\* threshold length, and a page whose cleaned text is shorter than the
\* threshold is not handed on (so it contributes no chunk).
C18_KeptPagesAreLongWhenCleaned ==
    filtered =>
        /\ \A i \in 1..Len(cleaned_docs) : TextLen(cleaned_docs[i]) >= MinPageLen
        /\ TextLen(clean_text(page_content)) < MinPageLen => cleaned_docs = <<>>

(***************************************************************************)
(* Write-through of the registry and growth of the index (under Spec).     *)
(***************************************************************************)
\* C17: between the file steps of a run, once mark_processed has returned,
\* the registry file holds exactly the in-memory registry, and a
\* VectorDatabase constructed then loads a registry in which
\* is_processed(f, d) is true for every file marked so far in the run.
C17_MarksSurviveRestart ==
    (runs >= 1 /\ pc \in {"loop", "done", "failed"})
        => /\ (\E p \in Paths : outcome[p] = "added")
                 => registry_file = save_registry(registry)
           /\ \A p \in Paths :
                 outcome[p] = "added"
                     => is_processed(load_registry(registry_file), Name(p),
                                     calculate_file_hash(scanned[p]))

\* C19: no step of any run removes or replaces a stored chunk: the index
\* after a step holds at least the copies of every chunk it held before.
C19_IndexAppendOnly ==
    [][vectorstore \sqsubseteq vectorstore']_vars

\* C19 witness: a file was indexed, its content changed, the next run
\* indexed it again, and the chunks of both versions are stored.
C19_Witness ==
    \E p \in Paths :
        /\ runs >= 2
        /\ prevOutcome[p] = "added" /\ outcome[p] = "added"
        /\ prevScanned[p] # scanned[p]
        /\ AllStored(process_file(p, prevScanned[p]))
        /\ AllStored(process_file(p, scanned[p]))

====
